---- MODULE Spec2Model ----
(***************************************************************************)
(* Scoring and statistics aggregation of the Premier League predictor:    *)
(* the result-entry endpoint, the fixture-update trigger                   *)
(* calculatePointsOnFixtureUpdate, the batched pipeline                    *)
(* processPredictionsInBatches and the scoring function calculatePoints,   *)
(* over the fixture, prediction and user stores.                           *)
(***************************************************************************)
EXTENDS Integers, Sequences, FiniteSets, TLC

(***************************************************************************)
(* JavaScript values.  Every value is a tagged record so that values of    *)
(* different JavaScript types can be compared.                             *)
(*   num       a finite integer Number                                     *)
(*   nan       the Number NaN                                              *)
(*   null      null                                                        *)
(*   undefined undefined (also: the field is absent from the document)     *)
(*   numstr    a string holding the decimal digits of v                    *)
(*   str       a string that does not start with a digit                   *)
(*   ts        a Firestore Timestamp (an object, truthy)                   *)
(***************************************************************************)
Num(n) == [t |-> "num", v |-> n]
NaN == [t |-> "nan", v |-> 0]
NULL == [t |-> "null", v |-> 0]
UNDEF == [t |-> "undefined", v |-> 0]
NumStr(n) == [t |-> "numstr", v |-> n]
Str == [t |-> "str", v |-> 0]
TS == [t |-> "ts", v |-> 0]
\* a Number that is not an integer, known by its integer part n
Fraction(n) == [t |-> "fraction", v |-> n]

IsNum(x) == x.t = "num"

\* Number(x)
ToNumber(x) ==
  CASE x.t = "num" -> x
    [] x.t = "numstr" -> Num(x.v)
    [] x.t = "null" -> Num(0)
    [] OTHER -> NaN

\* parseInt(x): the argument is first converted to a string
ParseInt(x) ==
  CASE x.t = "num" -> x
    [] x.t = "numstr" -> Num(x.v)
    [] OTHER -> NaN

\* x === y
StrictEquals(x, y) ==
  /\ x.t # "nan"
  /\ y.t # "nan"
  /\ x = y

\* x > y on values that are not both strings
GreaterThan(x, y) ==
  LET a == ToNumber(x)
      b == ToNumber(y)
  IN  /\ IsNum(a)
      /\ IsNum(b)
      /\ a.v > b.v

\* truthiness of a value, as used by && and ||
Truthy(x) ==
  CASE x.t = "num" -> x.v # 0
    [] x.t = "numstr" -> TRUE
    [] x.t = "str" -> TRUE
    [] x.t = "ts" -> TRUE
    [] OTHER -> FALSE

(***************************************************************************)
(* Scoring engine                                                          *)
(***************************************************************************)
\* getOutcome with >= for >: a draw is taken for a home win
getOutcomeDrawAsHome(homeScore, awayScore) ==
  IF ~GreaterThan(awayScore, homeScore) THEN "H"
  ELSE "A"

getOutcome(homeScore, awayScore) ==
  IF GreaterThan(homeScore, awayScore) THEN "H"
  ELSE IF GreaterThan(awayScore, homeScore) THEN "A"
  ELSE "D"

\* calculatePoints comparing the home leg only in its exact-score test
calculatePointsHomeLeg(homePrediction, awayPrediction, homeScore, awayScore) ==
  IF StrictEquals(ToNumber(homePrediction), ToNumber(homeScore)) THEN 3
  ELSE IF getOutcome(homePrediction, awayPrediction)
          = getOutcome(homeScore, awayScore)
    THEN 1
  ELSE 0

calculatePoints(homePrediction, awayPrediction, homeScore, awayScore) ==
  LET homePred == ToNumber(homePrediction)
      awayPred == ToNumber(awayPrediction)
      homeActual == ToNumber(homeScore)
      awayActual == ToNumber(awayScore)
  IN  IF StrictEquals(homePred, homeActual) /\ StrictEquals(awayPred, awayActual)
        THEN 3
      ELSE IF StrictEquals(homePrediction, homeScore)
              /\ StrictEquals(awayPrediction, awayScore)
        THEN 3
      ELSE IF getOutcome(homePrediction, awayPrediction)
              = getOutcome(homeScore, awayScore)
        THEN 1
      ELSE 0

(***************************************************************************)
(* IEEE-754 double arithmetic for the accuracy rate                        *)
(*   Math.round(((correct + exact) / processed) * 100)                     *)
(* Naturals beyond 32 bits are little-endian sequences of limbs in base   *)
(* Limb.                                                                   *)
(***************************************************************************)
RECURSIVE Pow2(_)
Pow2(n) == IF n = 0 THEN 1 ELSE 2 * Pow2(n - 1)

Limb == 2^15
\* bits of the significand of a double
MantissaBits == 53

\* number of bits of n
RECURSIVE BitLen(_)
BitLen(n) == IF n = 0 THEN 0 ELSE 1 + BitLen(n \div 2)

LimbBits == BitLen(Limb) - 1

RECURSIVE BigTrim(_)
BigTrim(x) ==
  IF Len(x) > 0 /\ x[Len(x)] = 0 THEN BigTrim(SubSeq(x, 1, Len(x) - 1)) ELSE x

BigOfInt(n) ==
  BigTrim(<<n % Limb, (n \div Limb) % Limb, n \div (Limb * Limb)>>)

RECURSIVE BigMulSmallC(_, _, _)
BigMulSmallC(x, m, carry) ==
  IF Len(x) = 0 THEN (IF carry = 0 THEN <<>> ELSE <<carry>>)
  ELSE LET v == Head(x) * m + carry
       IN  <<v % Limb>> \o BigMulSmallC(Tail(x), m, v \div Limb)

\* x * m, for 0 <= m <= Limb
BigMulSmall(x, m) == BigTrim(BigMulSmallC(x, m, 0))

RECURSIVE BigAddC(_, _, _)
BigAddC(x, y, carry) ==
  IF Len(x) = 0 /\ Len(y) = 0 THEN (IF carry = 0 THEN <<>> ELSE <<carry>>)
  ELSE LET a == IF Len(x) = 0 THEN 0 ELSE Head(x)
           b == IF Len(y) = 0 THEN 0 ELSE Head(y)
           v == a + b + carry
       IN  <<v % Limb>>
             \o BigAddC(IF Len(x) = 0 THEN x ELSE Tail(x),
                        IF Len(y) = 0 THEN y ELSE Tail(y), v \div Limb)

BigAdd(x, y) == BigTrim(BigAddC(x, y, 0))

\* x * 2^n
RECURSIVE BigShl(_, _)
BigShl(x, n) ==
  IF n = 0 THEN x
  ELSE IF n >= LimbBits THEN BigShl(<<0>> \o x, n - LimbBits)
  ELSE BigMulSmall(x, Pow2(n))

\* quotient and remainder of x by d, for 0 < d <= Limb; most significant limb first
RECURSIVE BigDivModR(_, _, _, _)
BigDivModR(x, d, i, rem) ==
  IF i = 0 THEN [q |-> <<>>, r |-> rem]
  ELSE LET v == rem * Limb + x[i]
           rest == BigDivModR(x, d, i - 1, v % d)
       IN  [q |-> rest.q \o <<v \div d>>, r |-> rest.r]

BigDivMod(x, d) ==
  LET res == BigDivModR(x, d, Len(x), 0)
  IN  [q |-> BigTrim(res.q), r |-> res.r]

\* floor(x / 2^n) with the remainder's relation to half of 2^n:
\* half = "lt", "eq" or "gt" says how the dropped bits compare with 2^(n-1)
RECURSIVE BigShrSticky(_, _, _)
BigShrSticky(x, n, sticky) ==
  IF n = 1
    THEN LET dm == BigDivMod(x, 2)
         IN  [q |-> dm.q,
              half |-> IF dm.r = 0 THEN (IF sticky THEN "lt" ELSE "zero")
                       ELSE (IF sticky THEN "gt" ELSE "eq")]
  ELSE LET k == IF n - 1 >= LimbBits THEN LimbBits ELSE n - 1
           dm == BigDivMod(x, Pow2(k))
       IN  BigShrSticky(dm.q, n - k, sticky \/ dm.r # 0)

BigBitLen(x) ==
  IF Len(x) = 0 THEN 0 ELSE LimbBits * (Len(x) - 1) + BitLen(x[Len(x)])

BigIsOdd(x) == Len(x) > 0 /\ x[1] % 2 = 1

BigToInt(x) ==
  (IF Len(x) >= 1 THEN x[1] ELSE 0) + (IF Len(x) >= 2 THEN x[2] * Limb ELSE 0)

\* round to nearest, ties to even: x scaled down by 2^n, n >= 1
BigRoundShr(x, n) ==
  LET sh == BigShrSticky(x, n, FALSE)
      up == sh.half = "gt" \/ (sh.half = "eq" /\ BigIsOdd(sh.q))
  IN  IF up THEN BigAdd(sh.q, <<1>>) ELSE sh.q

\* the exponent t with 2^52 <= k * 2^t / p < 2^53, for k, p in 1 .. Limb
RECURSIVE ScaleUp(_, _, _)
ScaleUp(k, p, e) == IF k >= p THEN e ELSE ScaleUp(2 * k, p, e + 1)

RECURSIVE ScaleDown(_, _, _)
ScaleDown(k, p, e) == IF 2 * p > k THEN e ELSE ScaleDown(k, 2 * p, e + 1)

DivExponent(k, p) ==
  IF k >= p THEN (MantissaBits - 1) - ScaleDown(k, p, 0)
  ELSE (MantissaBits - 1) + ScaleUp(k, p, 0)

\* the double k / p as [m, t]: the value m * 2^(-t), m a 53-bit natural
DoubleDiv(k, p) ==
  LET t == DivExponent(k, p)
      dm == BigDivMod(BigShl(BigOfInt(k), t), p)
      up == 2 * dm.r > p \/ (2 * dm.r = p /\ BigIsOdd(dm.q))
  IN  [m |-> IF up THEN BigAdd(dm.q, <<1>>) ELSE dm.q, t |-> t]

\* the double x * c for a small natural c
DoubleMulSmall(x, c) ==
  LET prod == BigMulSmall(x.m, c)
      extra == BigBitLen(prod) - MantissaBits
  IN  IF extra <= 0 THEN [m |-> prod, t |-> x.t]
      ELSE [m |-> BigRoundShr(prod, extra), t |-> x.t - extra]

\* Math.round(x): the nearest integer, ties towards +infinity
MathRound(x) ==
  IF Len(x.m) = 0 THEN 0
  ELSE IF x.t <= 0 THEN BigToInt(BigShl(x.m, 0 - x.t))
  ELSE BigToInt(BigShrSticky(BigAdd(x.m, BigShl(<<1>>, x.t - 1)), x.t, FALSE).q)

\* Math.round(((correct + exact) / processed) * 100), processed > 0
accuracyRate(hits, processed) ==
  IF hits = 0 THEN 0
  ELSE MathRound(DoubleMulSmall(DoubleDiv(hits, processed), 100))

\* the double (correct / total) * 100 of ProfileService.addPrediction, total > 0
RatioTimes100(correct, total) ==
  IF correct = 0 THEN Num(0)
  ELSE LET x == DoubleMulSmall(DoubleDiv(correct, total), 100)
       IN  IF x.t <= 0 THEN Num(BigToInt(BigShl(x.m, 0 - x.t)))
           ELSE LET sh == BigShrSticky(x.m, x.t, FALSE)
                IN  IF sh.half = "zero" THEN Num(BigToInt(sh.q))
                    ELSE Fraction(BigToInt(sh.q))

(***************************************************************************)
(* Stores                                                                  *)
(***************************************************************************)
UserSeq == <<"u1", "u2">>
FixtureSeq == <<"f1", "f2">>
GameweekSeq == <<1, 2>>

Range(q) == {q[n] : n \in 1 .. Len(q)}
Users == Range(UserSeq)
Fixtures == Range(FixtureSeq)
Gameweeks == Range(GameweekSeq)

\* the prediction documents of the model, by id `${userId}_${fixtureId}_${gameweek}`,
\* in document-id order, the order in which a query returns them; fixture f1 is
\* of gameweek 1 and f2 of gameweek 2, so <<"u1", "f1", 2>> is a prediction
\* saved with the wrong gameweek
PredIdSeq ==
  <<<<"u1", "f1", 1>>, <<"u1", "f1", 2>>, <<"u2", "f1", 1>>, <<"u2", "f2", 2>>>>

PredIds == Range(PredIdSeq)

\* bounds of the model
MaxSaves == 3
MaxFixtureUpdates == 2
MaxRuns == 2
MaxExternal == 1
MaxGoals == 3
MaxCounter == 40
MaxEdits == 3
MaxImports == 1
MaxSchedules == 2
\* milliseconds of the functions clock that pass while schedules are updated
MaxClock == 1

\* the predictions the clients save: the document id and the predicted score
SaveInputs ==
  {[id |-> <<"u1", "f1", 1>>, scores |-> <<Num(2), Num(1)>>],
   [id |-> <<"u1", "f1", 2>>, scores |-> <<Num(1), Num(0)>>],
   [id |-> <<"u2", "f1", 1>>, scores |-> <<Num(1), Num(1)>>],
   [id |-> <<"u2", "f2", 2>>, scores |-> <<Num(2), Num(1)>>]}
\* the scores an admin posts to updateMatchResult
ResultInputs == {<<Num(2), Num(1)>>, <<Num(0), Num(0)>>, <<Num(21), Num(0)>>}

VARIABLES
  fixtures,     \* fixtures collection: fixture id -> document
  predictions,  \* predictions collection: prediction id -> document
  users,        \* users collection: user id -> document
  events,       \* fixture update events emitted by the store (delivered at least once)
  runs,         \* invocations of calculatePointsOnFixtureUpdate
  ledger,       \* history: which predictions were ever committed as scored
  count,        \* history: number of client saves, result entries, external writes
  calc,         \* one application of calculatePoints
  acc,          \* one application of the stats update
  profiles,     \* users collection: the fields the profile service keeps
  schedule,     \* fixtures collection: the schedule fields; requests under way
  response,     \* the HTTP response to the last observed result-entry request
  leaderboard   \* the LeaderboardService of one client, its clock and its calls

vars ==
  <<fixtures, predictions, users, events, runs, ledger, count, calc, acc,
    response, leaderboard, profiles, schedule>>
storeVars ==
  <<fixtures, predictions, users, events, runs, ledger, count, profiles, schedule,
    response, leaderboard>>

NoPrediction ==
  [exists |-> FALSE, userId |-> "", fixtureId |-> "", gameweek |-> 0,
   homeScore |-> UNDEF, awayScore |-> UNDEF,
   pointsEarned |-> UNDEF, calculatedAt |-> UNDEF]

ZeroStats ==
  [totalPoints |-> Num(0), exactPredictions |-> Num(0),
   correctPredictions |-> Num(0), wrongPredictions |-> Num(0),
   processedPredictionsCount |-> Num(0), accuracyRate |-> Num(0)]

\* the profile document createUserProfile writes; statsOthers: the entries of
\* stats other than the six scoring fields are present
DefaultProfile ==
  [exists |-> TRUE, hasStats |-> TRUE, stats |-> ZeroStats, statsOthers |-> TRUE]

\* the fixture document importFixtures writes
ImportedFixture == [status |-> "upcoming", homeScore |-> NULL, awayScore |-> NULL]

\* the fields of the profile document beside the six scoring fields, as
\* createUserProfile writes them; totalMatches and favoriteTeam are absent
\* (0, "") until first written
DefaultFields ==
  [displayName |-> "Anonymous", theme |-> "system", favoriteTeam |-> "",
   predictionsMade |-> 0, currentStreak |-> 0, longestStreak |-> 0,
   perfectWeeks |-> 0, totalMatches |-> 0, lastActiveAt |-> 0]

\* the kickoff time importFixtures computes from fixtures.json, in hours
ImportedKickoff == 3

\* the schedule fields of the fixture document importFixtures writes
ImportedSchedule ==
  [kickoffTime |-> ImportedKickoff, predictionDeadline |-> ImportedKickoff - 1,
   scheduleHistory |-> <<>>]

NoCount ==
  [saves |-> 0, results |-> 0, external |-> 0, edits |-> 0, imports |-> 0,
   schedules |-> 0]

IdleRun ==
  [pc |-> "idle", fixtureId |-> "", before |-> ImportedFixture,
   after |-> ImportedFixture, preds |-> <<>>, i |-> 1, j |-> 1, batch |-> <<>>,
   writes |-> 0, commits |-> 0, base |-> [u \in Users |-> DefaultProfile],
   staged |-> <<>>]

NoCalc == [ph |-> 0, pa |-> 0, ah |-> 0, aa |-> 0, done |-> FALSE, points |-> 0]
NoAcc == [cur |-> ZeroStats, done |-> FALSE, points |-> 0, new |-> ZeroStats]

\* no result-entry request observed yet
NoResponse ==
  [status |-> 0, method |-> "", fixtureId |-> "", homeScore |-> UNDEF,
   awayScore |-> UNDEF]

\* minutes of the client clock the model lets pass
MaxNow == 6
\* versions of the users collection a leaderboard query can read
MaxBoard == 1
\* getTopLeaderboard calls of the client
MaxCalls == 3
\* CACHE_DURATION, in minutes
CACHE_DURATION == 5
\* the limits the client asks the top leaderboard for
LimitInputs == {1, 2}
\* cacheKey = `top_${limitTo}`
cacheKey(limitTo) == <<"top_", limitTo>>
CacheKeys == {cacheKey(n) : n \in LimitInputs}

NoAnswer == [limitTo |-> 0, entries |-> UNDEF, cached |-> FALSE, at |-> 0]

\* a new LeaderboardService: both maps empty (a key without an entry reads
\* undefined); now: Date.now() in minutes; board: the version of the users
\* collection; calls: getTopLeaderboard calls awaiting getDocs; answer: what
\* the last completed call returned
NewLeaderboardService ==
  [leaderboardCache |-> [k \in CacheKeys |-> UNDEF],
   cacheExpiry |-> [k \in CacheKeys |-> UNDEF],
   now |-> 0, board |-> 0, calls |-> {}, answer |-> NoAnswer, count |-> 0]

StoreInit ==
  /\ fixtures = [f \in Fixtures |-> ImportedFixture]
  /\ predictions = [id \in PredIds |-> NoPrediction]
  /\ users = [u \in Users |-> DefaultProfile]
  /\ events = {}
  /\ runs = [r \in 1 .. MaxRuns |-> IdleRun]
  /\ ledger = [scored |-> {}, count |-> [u \in Users |-> 0],
               points |-> [u \in Users |-> 0]]
  /\ count = NoCount
  /\ profiles = [u \in Users |-> DefaultFields]
  /\ schedule = [docs |-> [f \in Fixtures |-> ImportedSchedule], pending |-> <<>>, now |-> 0]
  /\ response = NoResponse
  /\ leaderboard = NewLeaderboardService

Init ==
  /\ StoreInit
  /\ calc = NoCalc
  /\ acc = NoAcc

(***************************************************************************)
(* Client: PredictionsService.savePrediction                               *)
(***************************************************************************)
\* existing = <<>>: no existingPrediction is passed, the document is created
\* with setDoc; otherwise existing is the id of the prediction to update
SavePrediction(userId, fixtureId, scores, gameweek, existing) ==
  /\ count.saves < MaxSaves
  /\ count' = [count EXCEPT !.saves = @ + 1]
  /\ IF existing # <<>>
       THEN /\ predictions[existing].exists
            /\ predictions' =
                 [predictions EXCEPT ![existing].homeScore = scores[1],
                                     ![existing].awayScore = scores[2],
                                     ![existing].gameweek = gameweek]
       ELSE predictions' =
              [predictions EXCEPT ![<<userId, fixtureId, gameweek>>] =
                 [exists |-> TRUE, userId |-> userId, fixtureId |-> fixtureId,
                  gameweek |-> gameweek,
                  homeScore |-> scores[1], awayScore |-> scores[2],
                  pointsEarned |-> UNDEF, calculatedAt |-> UNDEF]]
  /\ UNCHANGED <<fixtures, users, events, runs, ledger,
               calc, acc, response, leaderboard, profiles, schedule>>

(***************************************************************************)
(* Result entry: updateMatchResult                                         *)
(***************************************************************************)
\* isValidScore without the upper limit of 20
isValidScoreNoUpperLimit(score) == IsNum(score) /\ score.v >= 0

isValidScore(score) == IsNum(score) /\ score.v >= 0 /\ score.v <= 20

\* a document update makes the store emit an update event with both snapshots
Emit(fixtureId, before, after) ==
  events \cup {[fixtureId |-> fixtureId, before |-> before, after |-> after]}

\* the result entry writing the two scores without the status
UpdateMatchResultScoresOnly(method, fixtureId, homeScore, awayScore) ==
  /\ count.results + count.external < MaxFixtureUpdates
  /\ IF method # "POST"
       THEN UNCHANGED <<fixtures, events, count>>
     ELSE IF fixtureId = "" \/ ~isValidScore(homeScore) \/ ~isValidScore(awayScore)
       THEN UNCHANGED <<fixtures, events, count>>
     ELSE IF fixtureId \notin Fixtures
       THEN UNCHANGED <<fixtures, events, count>>
     ELSE LET after == [fixtures[fixtureId] EXCEPT !.homeScore = homeScore,
                                                   !.awayScore = awayScore]
          IN  /\ fixtures' = [fixtures EXCEPT ![fixtureId] = after]
              /\ events' = Emit(fixtureId, fixtures[fixtureId], after)
              /\ count' = [count EXCEPT !.results = @ + 1]
  /\ UNCHANGED <<predictions, users, runs, ledger, calc, acc, response, leaderboard, profiles, schedule>>

UpdateMatchResult(method, fixtureId, homeScore, awayScore) ==
  /\ count.results + count.external < MaxFixtureUpdates
  /\ IF method # "POST"
       THEN UNCHANGED <<fixtures, events, count>>            \* 405
     ELSE IF fixtureId = "" \/ ~isValidScore(homeScore) \/ ~isValidScore(awayScore)
       THEN UNCHANGED <<fixtures, events, count>>            \* 400
     ELSE IF fixtureId \notin Fixtures
       THEN UNCHANGED <<fixtures, events, count>>            \* 404
     ELSE LET after == [fixtures[fixtureId] EXCEPT !.homeScore = homeScore,
                                                   !.awayScore = awayScore,
                                                   !.status = "finished"]
          IN  /\ fixtures' = [fixtures EXCEPT ![fixtureId] = after]
              /\ events' = Emit(fixtureId, fixtures[fixtureId], after)
              /\ count' = [count EXCEPT !.results = @ + 1]
  /\ UNCHANGED <<predictions, users, runs, ledger,
               calc, acc, response, leaderboard, profiles, schedule>>

(***************************************************************************)
(* Trigger: calculatePointsOnFixtureUpdate                                 *)
(***************************************************************************)
\* statusChanged without the test of the before snapshot
statusChangedAfterOnly(beforeData, afterData) ==
  afterData.status = "finished"

statusChanged(beforeData, afterData) ==
  beforeData.status # "finished" /\ afterData.status = "finished"

hasScores(afterData) ==
  afterData.homeScore # NULL /\ afterData.awayScore # NULL

\* the query without its where clause
QueryAllPredictions(store, fixtureId) ==
  LET ids == SelectSeq(PredIdSeq, LAMBDA id : store[id].exists)
  IN  [n \in 1 .. Len(ids) |-> [id |-> ids[n], data |-> store[ids[n]]]]

\* db.collection("predictions").where("fixtureId", "==", fixtureId).get()
QueryPredictions(store, fixtureId) ==
  LET ids == SelectSeq(PredIdSeq,
                       LAMBDA id : store[id].exists /\ store[id].fixtureId = fixtureId)
  IN  [n \in 1 .. Len(ids) |-> [id |-> ids[n], data |-> store[ids[n]]]]

\* scaled down from the 500 of the source
BATCH_SIZE == 2

\* the guard written prediction.pointsEarned && prediction.calculatedAt:
\* a prediction that earned 0 points counts as not calculated
AlreadyCalculatedTruthy(prediction) ==
  Truthy(prediction.pointsEarned) /\ Truthy(prediction.calculatedAt)

\* prediction.pointsEarned !== null && prediction.calculatedAt
AlreadyCalculated(prediction) ==
  prediction.pointsEarned # NULL /\ Truthy(prediction.calculatedAt)

\* the slice taken as predictions.slice(i): everything from i in one batch
SliceEndWholeList(run) == Len(run.preds)

\* the last index of the slice predictions.slice(i, i + BATCH_SIZE)
SliceEnd(run) ==
  IF run.i + BATCH_SIZE - 1 < Len(run.preds) THEN run.i + BATCH_SIZE - 1
  ELSE Len(run.preds)

\* the inner loop from position j of the slice up to its next await: the
\* predictions already calculated are passed over; at the end of the slice
\* batch.commit() is issued
RECURSIVE SkipCalculated(_)
SkipCalculated(run) ==
  IF run.i + run.j - 1 > SliceEnd(run) THEN [run EXCEPT !.pc = "commit"]
  ELSE IF AlreadyCalculated(run.preds[run.i + run.j - 1].data)
    THEN SkipCalculated([run EXCEPT !.j = @ + 1])
  ELSE run

\* the first invocation slot not yet used
FreeRun(r) == runs[r].pc = "idle" /\ \A q \in 1 .. (r - 1) : runs[q].pc # "idle"

\* an update event always carries both snapshots, so the return on
\* !beforeData || !afterData is never taken
Deliver(r, ev) ==
  /\ FreeRun(r)
  /\ ev \in events
  /\ LET started == [IdleRun EXCEPT !.fixtureId = ev.fixtureId,
                                    !.before = ev.before,
                                    !.after = ev.after,
                                    !.base = users]
         found == QueryPredictions(predictions, ev.fixtureId)
     IN  runs' = [runs EXCEPT ![r] =
           IF ~statusChanged(ev.before, ev.after) \/ ~hasScores(ev.after)
             THEN [started EXCEPT !.pc = "skipped"]
           ELSE IF Len(found) = 0
             THEN [started EXCEPT !.pc = "empty"]
           ELSE SkipCalculated([started EXCEPT !.pc = "stage", !.preds = found])]
  /\ UNCHANGED <<fixtures, predictions, users, events, ledger, count,
               calc, acc, response, leaderboard, profiles, schedule>>

(***************************************************************************)
(* Pipeline: processPredictionsInBatches                                   *)
(***************************************************************************)
\* a + n for a Number a and an integer n
JsAdd(a, n) == IF IsNum(a) THEN Num(a.v + n) ELSE NaN

\* Math.round(((correct + exact) / processed) * 100)
JsAccuracy(correct, exact, processed) ==
  IF IsNum(correct) /\ IsNum(exact) /\ IsNum(processed) /\ processed.v > 0
    THEN Num(accuracyRate(correct.v + exact.v, processed.v))
    ELSE NaN

\* newStats counting a prediction as wrong whenever it is not exact
NewStatsWrongUnlessExact(currentStats, points) ==
  LET counters ==
        [totalPoints |-> JsAdd(ParseInt(currentStats.totalPoints), points),
         processedPredictionsCount |->
           JsAdd(ParseInt(currentStats.processedPredictionsCount), 1),
         exactPredictions |->
           JsAdd(ParseInt(currentStats.exactPredictions), IF points = 3 THEN 1 ELSE 0),
         correctPredictions |->
           JsAdd(ParseInt(currentStats.correctPredictions), IF points = 1 THEN 1 ELSE 0),
         wrongPredictions |->
           JsAdd(ParseInt(currentStats.wrongPredictions), IF points # 3 THEN 1 ELSE 0),
         accuracyRate |-> currentStats.accuracyRate]
  IN  [counters EXCEPT !.accuracyRate =
         JsAccuracy(counters.correctPredictions, counters.exactPredictions,
                    counters.processedPredictionsCount)]

\* NewStats counting every prediction with points as exact
NewStatsExactOnAnyPoints(currentStats, points) ==
  LET counters ==
        [totalPoints |-> JsAdd(ParseInt(currentStats.totalPoints), points),
         processedPredictionsCount |->
           JsAdd(ParseInt(currentStats.processedPredictionsCount), 1),
         exactPredictions |->
           JsAdd(ParseInt(currentStats.exactPredictions), IF points > 0 THEN 1 ELSE 0),
         correctPredictions |->
           JsAdd(ParseInt(currentStats.correctPredictions), IF points = 1 THEN 1 ELSE 0),
         wrongPredictions |->
           JsAdd(ParseInt(currentStats.wrongPredictions), IF points = 0 THEN 1 ELSE 0),
         accuracyRate |-> currentStats.accuracyRate]
  IN  [counters EXCEPT !.accuracyRate =
         JsAccuracy(counters.correctPredictions, counters.exactPredictions,
                    counters.processedPredictionsCount)]

NewStats(currentStats, points) ==
  LET counters ==
        [totalPoints |-> JsAdd(ParseInt(currentStats.totalPoints), points),
         processedPredictionsCount |->
           JsAdd(ParseInt(currentStats.processedPredictionsCount), 1),
         exactPredictions |->
           JsAdd(ParseInt(currentStats.exactPredictions), IF points = 3 THEN 1 ELSE 0),
         correctPredictions |->
           JsAdd(ParseInt(currentStats.correctPredictions), IF points = 1 THEN 1 ELSE 0),
         wrongPredictions |->
           JsAdd(ParseInt(currentStats.wrongPredictions), IF points = 0 THEN 1 ELSE 0),
         accuracyRate |-> currentStats.accuracyRate]
  IN  [counters EXCEPT !.accuracyRate =
         JsAccuracy(counters.correctPredictions, counters.exactPredictions,
                    counters.processedPredictionsCount)]

\* userDoc.data()?.stats || { totalPoints: 0, ... }
CurrentStats(userDoc) ==
  IF userDoc.exists /\ userDoc.hasStats THEN userDoc.stats ELSE ZeroStats

PredictionWrite(id, points) ==
  [kind |-> "prediction", pid |-> id, uid |-> id[1], points |-> points,
   stats |-> ZeroStats]

UserWrite(id, userId, points, newStats) ==
  [kind |-> "user", pid |-> id, uid |-> userId, points |-> points,
   stats |-> newStats]

\* one iteration of the inner loop for a prediction not yet calculated: the
\* await of userRef.get(), the two staged writes, and the loop up to the next await
Stage(r) ==
  /\ runs[r].pc = "stage"
  /\ LET run == runs[r]
         prediction == run.preds[run.i + run.j - 1]
         points == calculatePoints(ParseInt(prediction.data.homeScore),
                                   ParseInt(prediction.data.awayScore),
                                   run.after.homeScore, run.after.awayScore)
         userId == prediction.data.userId
         newStats == NewStats(CurrentStats(users[userId]), points)
     IN  runs' = [runs EXCEPT ![r] =
           SkipCalculated(
             [run EXCEPT
                !.j = @ + 1,
                !.batch = @ \o <<PredictionWrite(prediction.id, points),
                                 UserWrite(prediction.id, userId, points, newStats)>>,
                !.staged = Append(@, [userId |-> userId, points |-> points])])]
  /\ UNCHANGED <<fixtures, predictions, users, events, ledger, count,
               calc, acc, response, leaderboard, profiles, schedule>>

\* batch.update applies to an existing document only
BatchApplies(batch) ==
  \A n \in 1 .. Len(batch) :
    IF batch[n].kind = "prediction" THEN predictions[batch[n].pid].exists
    ELSE users[batch[n].uid].exists

RECURSIVE ApplyPredictionWrites(_, _, _)
ApplyPredictionWrites(batch, n, store) ==
  IF n > Len(batch) THEN store
  ELSE ApplyPredictionWrites(batch, n + 1,
         IF batch[n].kind = "prediction"
           THEN [store EXCEPT ![batch[n].pid].pointsEarned = Num(batch[n].points),
                              ![batch[n].pid].calculatedAt = TS]
           ELSE store)

\* update(userRef, { stats: newStats }) replaces the whole stats map
RECURSIVE ApplyUserWrites(_, _, _)
ApplyUserWrites(batch, n, store) ==
  IF n > Len(batch) THEN store
  ELSE ApplyUserWrites(batch, n + 1,
         IF batch[n].kind = "user"
           THEN [store EXCEPT ![batch[n].uid].hasStats = TRUE,
                              ![batch[n].uid].stats = batch[n].stats,
                              ![batch[n].uid].statsOthers = FALSE]
           ELSE store)

\* history: the predictions of the batch that were never scored before
RECURSIVE Credit(_, _, _)
Credit(batch, n, led) ==
  IF n > Len(batch) THEN led
  ELSE Credit(batch, n + 1,
         IF batch[n].kind = "prediction" /\ batch[n].pid \notin led.scored
           THEN [scored |-> led.scored \cup {batch[n].pid},
                 count |-> [led.count EXCEPT ![batch[n].uid] = @ + 1],
                 points |-> [led.points EXCEPT ![batch[n].uid] = @ + batch[n].points]]
           ELSE led)

\* await batch.commit() succeeds
Commit(r) ==
  /\ runs[r].pc = "commit"
  /\ LET run == runs[r]
         committed == [run EXCEPT !.writes = @ + Len(run.batch),
                                  !.commits = @ + 1,
                                  !.batch = <<>>,
                                  !.i = @ + BATCH_SIZE,
                                  !.j = 1]
     IN  IF BatchApplies(run.batch)
           THEN /\ predictions' = ApplyPredictionWrites(run.batch, 1, predictions)
                /\ users' = ApplyUserWrites(run.batch, 1, users)
                /\ ledger' = Credit(run.batch, 1, ledger)
                /\ runs' = [runs EXCEPT ![r] =
                     IF committed.i > Len(run.preds)
                       THEN [committed EXCEPT !.pc = "done"]
                       ELSE SkipCalculated([committed EXCEPT !.pc = "stage"])]
           ELSE /\ runs' = [runs EXCEPT ![r].pc = "failed"]
                /\ UNCHANGED <<predictions, users, ledger>>
  /\ UNCHANGED <<fixtures, events, count, calc, acc, response, leaderboard, profiles, schedule>>

\* a commit that is not atomic: the prediction writes of the batch are applied
\* before the commit rejects
CommitFailPartial(r) ==
  /\ runs[r].pc = "commit"
  /\ runs' = [runs EXCEPT ![r].pc = "failed"]
  /\ predictions' = ApplyPredictionWrites(runs[r].batch, 1, predictions)
  /\ UNCHANGED <<fixtures, users, events, ledger, count,
               calc, acc, response, leaderboard, profiles, schedule>>

\* await batch.commit() rejects (store unavailable, quota): the trigger's
\* catch logs the error; nothing of the batch is written
CommitFail(r) ==
  /\ runs[r].pc = "commit"
  /\ runs' = [runs EXCEPT ![r].pc = "failed"]
  /\ UNCHANGED <<fixtures, predictions, users, events, ledger, count,
               calc, acc, response, leaderboard, profiles, schedule>>

(***************************************************************************)
(* Any other writer of a fixture document (the trigger is registered on    *)
(* every update of fixtures/{fixtureId}; homeScore and awayScore are       *)
(* optional fields of a Fixture)                                           *)
(***************************************************************************)
ExternalDocuments ==
  {[status |-> "live", homeScore |-> NULL, awayScore |-> NULL],
   [status |-> "finished", homeScore |-> Num(2), awayScore |-> NULL],
   [status |-> "finished", homeScore |-> UNDEF, awayScore |-> UNDEF]}

ExternalFixtureUpdate(fixtureId, doc) ==
  /\ count.external < MaxExternal
  /\ count.results + count.external < MaxFixtureUpdates
  /\ doc # fixtures[fixtureId]
  /\ fixtures' = [fixtures EXCEPT ![fixtureId] = doc]
  /\ events' = Emit(fixtureId, fixtures[fixtureId], doc)
  /\ count' = [count EXCEPT !.external = @ + 1]
  /\ UNCHANGED <<predictions, users, runs, ledger,
               calc, acc, response, leaderboard, profiles, schedule>>

(***************************************************************************)
(* Specifications                                                          *)
(***************************************************************************)
Next ==
  \/ \E in \in SaveInputs :
       \E e \in {<<>>, in.id} :
         SavePrediction(in.id[1], in.id[2], in.scores, in.id[3], e)
  \/ \E m \in {"POST", "GET"}, f \in Fixtures \cup {"", "GW0-XXX-YYY"},
        s \in ResultInputs :
       UpdateMatchResult(m, f, s[1], s[2])
  \/ \E r \in 1 .. MaxRuns, ev \in events : Deliver(r, ev)
  \/ \E r \in 1 .. MaxRuns : Stage(r)
  \/ \E r \in 1 .. MaxRuns : Commit(r)
  \/ \E r \in 1 .. MaxRuns : CommitFail(r)

Spec == Init /\ [][Next]_vars

NextExt ==
  \/ Next
  \/ \E f \in Fixtures, doc \in ExternalDocuments : ExternalFixtureUpdate(f, doc)

\* the program together with other writers of the fixture documents
SpecExt == Init /\ [][NextExt]_vars

(***************************************************************************)
(* The program with clients that save a score that is not a number:        *)
(* savePrediction writes the homeScore and awayScore it is given           *)
(***************************************************************************)
BadSaveInputs ==
  {[id |-> <<"u2", "f1", 1>>, scores |-> <<Str, Str>>],
   [id |-> <<"u1", "f1", 1>>, scores |-> <<NULL, Num(1)>>]}

NextBad ==
  \/ Next
  \/ \E in \in BadSaveInputs :
       SavePrediction(in.id[1], in.id[2], in.scores, in.id[3], <<>>)

SpecBad == Init /\ [][NextBad]_vars

(***************************************************************************)
(* Client: ProfileService.  currentProfile is the snapshot the listener    *)
(* keeps, taken here to be the stored document; the operations are         *)
(* modelled on a stats map that holds all its entries (statsOthers)        *)
(***************************************************************************)
Touch(fields) == [fields EXCEPT !.lastActiveAt = count.edits + 1]

Edit(u, fields) ==
  /\ count.edits < MaxEdits
  /\ count' = [count EXCEPT !.edits = @ + 1]
  /\ profiles' = [profiles EXCEPT ![u] = Touch(fields)]

addPrediction(u, isCorrect, points) ==
  /\ users[u].exists /\ users[u].statsOthers
  /\ LET stats == users[u].stats
         fields == profiles[u]
         newStreak == IF isCorrect THEN fields.currentStreak + 1 ELSE 0
         newLongestStreak ==
           IF newStreak > fields.longestStreak THEN newStreak
           ELSE fields.longestStreak
         newCorrectPredictions ==
           IF isCorrect THEN JsAdd(stats.correctPredictions, 1)
           ELSE stats.correctPredictions
         newTotalPredictions == fields.predictionsMade + 1
         newAccuracyRate ==
           IF IsNum(newCorrectPredictions)
             THEN RatioTimes100(newCorrectPredictions.v, newTotalPredictions)
             ELSE NaN
     IN  /\ users' = [users EXCEPT
                        ![u].stats.totalPoints = JsAdd(@, points),
                        ![u].stats.correctPredictions = newCorrectPredictions,
                        ![u].stats.accuracyRate = newAccuracyRate]
         /\ Edit(u, [fields EXCEPT !.predictionsMade = @ + 1,
                                   !.currentStreak = newStreak,
                                   !.longestStreak = newLongestStreak])
  /\ UNCHANGED <<fixtures, predictions, events, runs, ledger, calc, acc, response, leaderboard, schedule>>

incrementMatchCount(u) ==
  /\ users[u].exists /\ users[u].statsOthers
  /\ Edit(u, [profiles[u] EXCEPT !.totalMatches = @ + 1])
  /\ UNCHANGED <<fixtures, predictions, users, events, runs, ledger, calc, acc, response, leaderboard,
                 schedule>>

\* the bonus of a perfect week
PerfectWeekBonus == 50

addPerfectWeek(u) ==
  /\ users[u].exists /\ users[u].statsOthers
  /\ users' = [users EXCEPT ![u].stats.totalPoints = JsAdd(@, PerfectWeekBonus)]
  /\ Edit(u, [profiles[u] EXCEPT !.perfectWeeks = @ + 1])
  /\ UNCHANGED <<fixtures, predictions, events, runs, ledger, calc, acc, response, leaderboard, schedule>>

setFavoriteTeam(u, teamName) ==
  /\ users[u].exists /\ users[u].statsOthers
  /\ Edit(u, [profiles[u] EXCEPT !.favoriteTeam = teamName])
  /\ UNCHANGED <<fixtures, predictions, users, events, runs, ledger, calc, acc, response, leaderboard,
                 schedule>>

updatePreferences(u, theme) ==
  /\ users[u].exists
  /\ Edit(u, [profiles[u] EXCEPT !.theme = theme])
  /\ UNCHANGED <<fixtures, predictions, users, events, runs, ledger, calc, acc, response, leaderboard,
                 schedule>>

updateDisplayName(u, newDisplayName) ==
  /\ users[u].exists
  /\ Edit(u, [profiles[u] EXCEPT !.displayName = newDisplayName])
  /\ UNCHANGED <<fixtures, predictions, users, events, runs, ledger, calc, acc, response, leaderboard,
                 schedule>>

updateLastActive(u) ==
  /\ users[u].exists
  /\ Edit(u, profiles[u])
  /\ UNCHANGED <<fixtures, predictions, users, events, runs, ledger, calc, acc, response, leaderboard,
                 schedule>>

ProfileNext ==
  \/ \E u \in Users, isCorrect \in BOOLEAN, points \in {0, 1, 3} :
       addPrediction(u, isCorrect, points)
  \/ \E u \in Users : incrementMatchCount(u)
  \/ \E u \in Users : addPerfectWeek(u)
  \/ \E u \in Users : setFavoriteTeam(u, "ARS")
  \/ \E u \in Users : updatePreferences(u, "dark")
  \/ \E u \in Users : updateDisplayName(u, "Sam")
  \/ \E u \in Users : updateLastActive(u)

ProfileSpec == Init /\ [][ProfileNext]_vars

(***************************************************************************)
(* The admin endpoints that write fixture documents: importFixtures,       *)
(* updateMatchResult, updateFixtureSchedule                                *)
(***************************************************************************)
\* importFixtures sets every fixture document of fixtures.json anew; a
\* document that changes makes the store emit an update event
ImportFixtures ==
  /\ count.imports < MaxImports
  /\ count' = [count EXCEPT !.imports = @ + 1]
  /\ fixtures' = [f \in Fixtures |-> ImportedFixture]
  /\ schedule' = [schedule EXCEPT !.docs = [f \in Fixtures |-> ImportedSchedule]]
  /\ events' = events \cup
       {[fixtureId |-> f, before |-> fixtures[f], after |-> ImportedFixture] :
          f \in {g \in Fixtures : \/ fixtures[g] # ImportedFixture
                                  \/ schedule.docs[g] # ImportedSchedule}}
  /\ UNCHANGED <<predictions, users, runs, ledger, calc, acc, response, leaderboard, profiles>>

\* typeof newKickoffTime === "string"
IsString(x) == x.t \in {"numstr", "str"}

\* the time of new Date(x) for a string and of Timestamp.fromMillis(x) for a
\* number, in hours; NaN for a string that is no date
KickoffOf(x) ==
  CASE x.t = "num" -> x
    [] x.t = "numstr" -> Num(x.v)
    [] OTHER -> NaN

\* the kickoff times posted to updateFixtureSchedule: a date string of hour 5,
\* a string that is no date, a timestamp of hour 7, 0, nothing, an object
KickoffInputs == {NumStr(5), Str, Num(7), Num(0), UNDEF, TS}

\* updateFixtureSchedule up to its await of fixtureRef.update: the request is
\* answered 405, 400 or 404, or the update is issued with the kickoff time read
ScheduleRequest(method, fixtureId, newKickoffTime) ==
  /\ count.schedules < MaxSchedules
  /\ count' = [count EXCEPT !.schedules = @ + 1]
  /\ IF method # "POST"
       THEN UNCHANGED schedule                                   \* 405
     ELSE IF fixtureId = "" \/ ~Truthy(newKickoffTime)
       THEN UNCHANGED schedule                                   \* 400
     ELSE IF fixtureId \notin Fixtures
       THEN UNCHANGED schedule                                   \* 404
     ELSE IF IsString(newKickoffTime) /\ ~IsNum(KickoffOf(newKickoffTime))
       THEN UNCHANGED schedule                                   \* 400
     ELSE IF ~IsString(newKickoffTime) /\ ~IsNum(newKickoffTime)
       THEN UNCHANGED schedule                                   \* 400
     ELSE IF fixtures[fixtureId].status = "finished"
       THEN UNCHANGED schedule                                   \* 400
     ELSE \E t \in schedule.now .. MaxClock :
            schedule' =
              [schedule EXCEPT
                 !.now = t,
                 !.pending = Append(@,
                   [fixtureId |-> fixtureId,
                    oldKickoffTime |-> schedule.docs[fixtureId].kickoffTime,
                    newKickoffTime |-> KickoffOf(newKickoffTime).v,
                    updatedAt |-> t])]
  /\ UNCHANGED <<fixtures, predictions, users, events, runs, ledger, calc, acc,
                 response, leaderboard, profiles>>

\* FieldValue.arrayUnion(element): the element is added unless the array
\* already holds an equal one
ArrayUnion(array, element) ==
  IF \E n \in 1 .. Len(array) : array[n] = element THEN array
  ELSE Append(array, element)

\* the sequence without its n-th element
RemoveAt(seq, n) == SubSeq(seq, 1, n - 1) \o SubSeq(seq, n + 1, Len(seq))

\* the update of updateFixtureSchedule number n of those under way reaches the store
ScheduleWrite(n) ==
  /\ n \in 1 .. Len(schedule.pending)
  /\ LET req == schedule.pending[n]
     IN  /\ schedule' =
              [schedule EXCEPT
                 !.docs[req.fixtureId] =
                    [kickoffTime |-> req.newKickoffTime,
                     predictionDeadline |-> req.newKickoffTime - 1,
                     scheduleHistory |->
                       ArrayUnion(@.scheduleHistory,
                                  [oldKickoffTime |-> req.oldKickoffTime,
                                   newKickoffTime |-> req.newKickoffTime,
                                   updatedAt |-> req.updatedAt])],
                 !.pending = RemoveAt(@, n)]
         /\ events' = Emit(req.fixtureId, fixtures[req.fixtureId],
                           fixtures[req.fixtureId])
  /\ UNCHANGED <<fixtures, predictions, users, runs, ledger, count, calc, acc,
                 response, leaderboard, profiles>>

FixtureNext ==
  \/ ImportFixtures
  \/ \E m \in {"POST", "GET"}, f \in Fixtures \cup {"", "GW0-XXX-YYY"},
        s \in ResultInputs :
       UpdateMatchResult(m, f, s[1], s[2])
  \/ \E m \in {"POST", "GET"}, f \in Fixtures \cup {"", "GW0-XXX-YYY"},
        t \in KickoffInputs :
       ScheduleRequest(m, f, t)
  \/ \E n \in 1 .. MaxSchedules : ScheduleWrite(n)

FixtureSpec == Init /\ [][FixtureNext]_vars

(***************************************************************************)
(* The scoring engine on its own: one application of calculatePoints to    *)
(* integer scores                                                          *)
(***************************************************************************)
Goals == 0 .. MaxGoals

ScoreInit ==
  /\ StoreInit
  /\ acc = NoAcc
  /\ calc \in [ph : Goals, pa : Goals, ah : Goals, aa : Goals,
               done : {FALSE}, points : {0}]

Score ==
  /\ ~calc.done
  /\ calc' = [calc EXCEPT
                !.done = TRUE,
                !.points = calculatePoints(Num(calc.ph), Num(calc.pa),
                                           Num(calc.ah), Num(calc.aa))]
  /\ UNCHANGED <<storeVars, acc>>

ScoreSpec == ScoreInit /\ [][Score]_vars

(***************************************************************************)
(* The stats update on its own: one application of the derivation of       *)
(* newStats to a stats record the pipeline can have written                *)
(***************************************************************************)
StatsOf(exact, correct, wrong) ==
  [totalPoints |-> Num(3 * exact + correct),
   exactPredictions |-> Num(exact),
   correctPredictions |-> Num(correct),
   wrongPredictions |-> Num(wrong),
   processedPredictionsCount |-> Num(exact + correct + wrong),
   accuracyRate |-> IF exact + correct + wrong = 0 THEN Num(0)
                    ELSE Num(accuracyRate(exact + correct, exact + correct + wrong))]

AccInit ==
  /\ StoreInit
  /\ calc = NoCalc
  /\ \E e \in 0 .. MaxCounter, c \in 0 .. MaxCounter, w \in 0 .. MaxCounter :
       /\ e + c + w < MaxCounter
       /\ acc = [NoAcc EXCEPT !.cur = StatsOf(e, c, w)]

ApplyStats(points) ==
  /\ ~acc.done
  /\ acc' = [acc EXCEPT !.done = TRUE, !.points = points,
                        !.new = NewStats(acc.cur, points)]
  /\ UNCHANGED <<storeVars, calc>>

AccNext == \E points \in {0, 1, 3} : ApplyStats(points)

AccSpec == AccInit /\ [][AccNext]_vars

(***************************************************************************)
(* Rerun after an aborted run: a fixture with saved predictions has been   *)
(* finalized; its event is delivered again only when no invocation is      *)
(* under way                                                               *)
(***************************************************************************)
\* the document the create path of savePrediction writes
CreatedPrediction(userId, fixtureId, scores, gameweek) ==
  [exists |-> TRUE, userId |-> userId, fixtureId |-> fixtureId,
   gameweek |-> gameweek, homeScore |-> scores[1], awayScore |-> scores[2],
   pointsEarned |-> UNDEF, calculatedAt |-> UNDEF]

\* the fixture document after updateMatchResult
FinishedFixture(scores) ==
  [status |-> "finished", homeScore |-> scores[1], awayScore |-> scores[2]]

RetryFixture == FixtureSeq[1]

RetryInit ==
  /\ calc = NoCalc
  /\ acc = NoAcc
  /\ users = [u \in Users |-> DefaultProfile]
  /\ runs = [r \in 1 .. MaxRuns |-> IdleRun]
  /\ ledger = [scored |-> {}, count |-> [u \in Users |-> 0],
               points |-> [u \in Users |-> 0]]
  /\ count = NoCount
  /\ profiles = [u \in Users |-> DefaultFields]
  /\ schedule = [docs |-> [f \in Fixtures |-> ImportedSchedule], pending |-> <<>>, now |-> 0]
  /\ response = NoResponse
  /\ leaderboard = NewLeaderboardService
  /\ \E saved \in SUBSET {in \in SaveInputs : in.id[2] = RetryFixture},
        scores \in {s \in ResultInputs : isValidScore(s[1]) /\ isValidScore(s[2])} :
       /\ predictions =
            [id \in PredIds |->
               IF \E in \in saved : in.id = id
                 THEN CreatedPrediction(id[1], id[2],
                        (CHOOSE in \in saved : in.id = id).scores, id[3])
                 ELSE NoPrediction]
       /\ fixtures = [f \in Fixtures |->
                        IF f = RetryFixture THEN FinishedFixture(scores)
                        ELSE ImportedFixture]
       /\ events = {[fixtureId |-> RetryFixture, before |-> ImportedFixture,
                     after |-> FinishedFixture(scores)]}

\* a delivery while no other invocation is between its query and its last commit
DeliverAlone(r, ev) ==
  /\ \A q \in 1 .. MaxRuns : runs[q].pc \notin {"stage", "commit"}
  /\ Deliver(r, ev)

RetryNext ==
  \/ \E r \in 1 .. MaxRuns, ev \in events : DeliverAlone(r, ev)
  \/ \E r \in 1 .. MaxRuns : Stage(r)
  \/ \E r \in 1 .. MaxRuns : Commit(r)
  \/ \E r \in 1 .. MaxRuns : CommitFail(r)

RetrySpec == RetryInit /\ [][RetryNext]_vars

(***************************************************************************)
(* Scoring to completion: the finalized fixture of RetryInit, every event  *)
(* delivered once, and the admin posting the stored result again           *)
(***************************************************************************)
\* the event has been handed to an invocation
Delivered(ev) ==
  \E q \in 1 .. MaxRuns :
    /\ runs[q].pc # "idle"
    /\ runs[q].fixtureId = ev.fixtureId
    /\ runs[q].before = ev.before
    /\ runs[q].after = ev.after

\* the delivery the platform owes every event; the trigger returns normally
\* from its catch and sets no retry option, so no failure asks for another
DeliverOnce(r, ev) ==
  /\ ~Delivered(ev)
  /\ Deliver(r, ev)

\* the admin's retry after an invocation of the fixture aborted:
\* updateMatchResult posted again with the result the fixture already holds;
\* the update rewrites the same scores and status and a new updatedAt, and the
\* store emits an update event whose two snapshots are both finished
ManualRetry(fixtureId) ==
  /\ fixtureId \in Fixtures
  /\ \E r \in 1 .. MaxRuns : runs[r].pc = "failed" /\ runs[r].fixtureId = fixtureId
  /\ fixtures[fixtureId].status = "finished"
  /\ isValidScore(fixtures[fixtureId].homeScore)
  /\ isValidScore(fixtures[fixtureId].awayScore)
  /\ LET after == [fixtures[fixtureId] EXCEPT !.status = "finished"]
     IN  /\ fixtures' = [fixtures EXCEPT ![fixtureId] = after]
         /\ events' = Emit(fixtureId, fixtures[fixtureId], after)
  /\ UNCHANGED <<predictions, users, runs, ledger, count,
               calc, acc, response, leaderboard, profiles, schedule>>

LiveNext ==
  \/ \E r \in 1 .. MaxRuns, ev \in events : DeliverOnce(r, ev)
  \/ \E r \in 1 .. MaxRuns : Stage(r)
  \/ \E r \in 1 .. MaxRuns : Commit(r)
  \/ \E r \in 1 .. MaxRuns : CommitFail(r)
  \/ ManualRetry(RetryFixture)

\* every event is delivered, a commit that can succeed does, the admin does
\* retry, and an invocation runs on from each stats read to its next commit:
\* Stage(r) is enabled exactly while pc is "stage" and only Stage(r) leaves
\* it, so its weak fairness is that pc is not "stage" for ever
LiveSpec ==
  /\ RetryInit
  /\ [][LiveNext]_vars
  /\ WF_vars(\E r \in 1 .. MaxRuns, ev \in events : DeliverOnce(r, ev))
  /\ \A r \in 1 .. MaxRuns : WF_vars(Commit(r))
  /\ \A r \in 1 .. MaxRuns : []<>(runs[r].pc # "stage")
  /\ WF_vars(ManualRetry(RetryFixture))

\* the users store after one invocation of processPredictionsInBatches in
\* which every commit succeeds and nothing else writes: from position n of
\* the prediction list, with the user writes staged in the open batch
RECURSIVE SingleRunUsers(_, _, _, _, _)
SingleRunUsers(preds, after, n, batch, store) ==
  IF n > Len(preds) THEN ApplyUserWrites(batch, 1, store)
  ELSE LET newSlice == n > 1 /\ (n - 1) % BATCH_SIZE = 0
           committed == IF newSlice THEN ApplyUserWrites(batch, 1, store) ELSE store
           open == IF newSlice THEN <<>> ELSE batch
           prediction == preds[n]
           points == calculatePoints(ParseInt(prediction.data.homeScore),
                                     ParseInt(prediction.data.awayScore),
                                     after.homeScore, after.awayScore)
           userId == prediction.data.userId
       IN  IF AlreadyCalculated(prediction.data)
             THEN SingleRunUsers(preds, after, n + 1, open, committed)
             ELSE SingleRunUsers(preds, after, n + 1,
                    Append(open, UserWrite(prediction.id, userId, points,
                                           NewStats(CurrentStats(committed[userId]), points))),
                    committed)

\* the points a prediction carries after such a run
SingleRunPoints(prediction, after) ==
  IF AlreadyCalculated(prediction.data) THEN prediction.data.pointsEarned
  ELSE Num(calculatePoints(ParseInt(prediction.data.homeScore),
                           ParseInt(prediction.data.awayScore),
                           after.homeScore, after.awayScore))

(***************************************************************************)
(* updateMatchResult with its HTTP response                                *)
(***************************************************************************)
\* the status code updateMatchResult answers a request with
ResultStatus(method, fixtureId, homeScore, awayScore) ==
  IF method # "POST" THEN 405
  ELSE IF fixtureId = "" \/ ~isValidScore(homeScore) \/ ~isValidScore(awayScore)
    THEN 400
  ELSE IF fixtureId \notin Fixtures THEN 404
  ELSE 200

\* the result-entry requests observed with their response
ResultRequests ==
  {<<"POST", "f1", Num(2), Num(1)>>, <<"GET", "f1", Num(2), Num(1)>>,
   <<"POST", "", Num(2), Num(1)>>, <<"POST", "f1", Num(21), Num(0)>>,
   <<"POST", "f1", Num(2), Num(0 - 1)>>, <<"POST", "f1", Fraction(1), Num(1)>>,
   <<"POST", "f1", NumStr(2), UNDEF>>,
   <<"POST", "GW0-XXX-YYY", Num(2), Num(1)>>}

\* one updateMatchResult request and the response it is answered with
ResultEntry(method, fixtureId, homeScore, awayScore) ==
  LET status == ResultStatus(method, fixtureId, homeScore, awayScore)
  IN  /\ status = 200 => count.results + count.external < MaxFixtureUpdates
      /\ response' = [status |-> status, method |-> method,
                      fixtureId |-> fixtureId, homeScore |-> homeScore,
                      awayScore |-> awayScore]
      /\ IF status = 200
           THEN LET after == [fixtures[fixtureId] EXCEPT !.homeScore = homeScore,
                                                         !.awayScore = awayScore,
                                                         !.status = "finished"]
                IN  /\ fixtures' = [fixtures EXCEPT ![fixtureId] = after]
                    /\ events' = Emit(fixtureId, fixtures[fixtureId], after)
                    /\ count' = [count EXCEPT !.results = @ + 1]
           ELSE UNCHANGED <<fixtures, events, count>>
      /\ UNCHANGED <<predictions, users, runs, ledger, calc, acc, leaderboard,
                     profiles, schedule>>

ResultNext ==
  \/ \E in \in {i \in SaveInputs : i.id[2] = "f1"} :
       \E e \in {<<>>, in.id} :
         SavePrediction(in.id[1], in.id[2], in.scores, in.id[3], e)
  \/ \E q \in ResultRequests : ResultEntry(q[1], q[2], q[3], q[4])
  \/ \E r \in 1 .. MaxRuns, ev \in events : Deliver(r, ev)
  \/ \E r \in 1 .. MaxRuns : Stage(r)
  \/ \E r \in 1 .. MaxRuns : Commit(r)
  \/ \E r \in 1 .. MaxRuns : CommitFail(r)

ResultSpec == Init /\ [][ResultNext]_vars

(***************************************************************************)
(* The pipeline over predictions carrying any combination of pointsEarned  *)
(* and calculatedAt (both are optional fields of a Prediction)             *)
(***************************************************************************)
PointsEarnedInputs == {UNDEF, NULL, Num(0), Num(3)}
CalculatedAtInputs == {UNDEF, NULL, TS}
GuardPredIds == {<<"u1", "f1", 1>>, <<"u2", "f1", 1>>}

\* fixture f1 was just finished 2-1 and its update event is not yet delivered;
\* two predictions for it exist
GuardInit ==
  /\ calc = NoCalc
  /\ acc = NoAcc
  /\ users = [u \in Users |-> DefaultProfile]
  /\ runs = [r \in 1 .. MaxRuns |-> IdleRun]
  /\ ledger = [scored |-> {}, count |-> [u \in Users |-> 0],
               points |-> [u \in Users |-> 0]]
  /\ count = NoCount
  /\ profiles = [u \in Users |-> DefaultFields]
  /\ schedule = [docs |-> [f \in Fixtures |-> ImportedSchedule], pending |-> <<>>, now |-> 0]
  /\ response = NoResponse
  /\ leaderboard = NewLeaderboardService
  /\ fixtures = [f \in Fixtures |->
                   IF f = RetryFixture THEN FinishedFixture(<<Num(2), Num(1)>>)
                   ELSE ImportedFixture]
  /\ events = {[fixtureId |-> RetryFixture, before |-> ImportedFixture,
                after |-> FinishedFixture(<<Num(2), Num(1)>>)]}
  /\ \E pe \in [GuardPredIds -> PointsEarnedInputs],
        ca \in [GuardPredIds -> CalculatedAtInputs] :
       predictions =
         [id \in PredIds |->
            IF id \in GuardPredIds
              THEN [CreatedPrediction(id[1], id[2],
                      (CHOOSE in \in SaveInputs : in.id = id).scores, id[3])
                    EXCEPT !.pointsEarned = pe[id], !.calculatedAt = ca[id]]
              ELSE NoPrediction]

GuardSpec == GuardInit /\ [][RetryNext]_vars

(***************************************************************************)
(* The pipeline for owners without a stats record                          *)
(***************************************************************************)
\* a user document without a stats field
NoStatsProfile == [DefaultProfile EXCEPT !.hasStats = FALSE, !.statsOthers = FALSE]
\* no user document
MissingProfile ==
  [exists |-> FALSE, hasStats |-> FALSE, stats |-> ZeroStats, statsOthers |-> FALSE]

\* fixture f1 was just finished and its update event is not yet delivered; each
\* user has at most one prediction for it; a user document has a stats map,
\* has none, or does not exist (predictions are written by the client under
\* the uid, whether or not createUserProfile ran)
OwnerInit ==
  /\ calc = NoCalc
  /\ acc = NoAcc
  /\ runs = [r \in 1 .. MaxRuns |-> IdleRun]
  /\ ledger = [scored |-> {}, count |-> [u \in Users |-> 0],
               points |-> [u \in Users |-> 0]]
  /\ count = NoCount
  /\ profiles = [u \in Users |-> DefaultFields]
  /\ schedule = [docs |-> [f \in Fixtures |-> ImportedSchedule], pending |-> <<>>, now |-> 0]
  /\ response = NoResponse
  /\ leaderboard = NewLeaderboardService
  /\ users \in [Users -> {DefaultProfile, NoStatsProfile, MissingProfile}]
  /\ \E saved \in SUBSET GuardPredIds,
        scores \in {s \in ResultInputs : isValidScore(s[1]) /\ isValidScore(s[2])} :
       /\ predictions =
            [id \in PredIds |->
               IF id \in saved
                 THEN CreatedPrediction(id[1], id[2],
                        (CHOOSE in \in SaveInputs : in.id = id).scores, id[3])
                 ELSE NoPrediction]
       /\ fixtures = [f \in Fixtures |->
                        IF f = RetryFixture THEN FinishedFixture(scores)
                        ELSE ImportedFixture]
       /\ events = {[fixtureId |-> RetryFixture, before |-> ImportedFixture,
                     after |-> FinishedFixture(scores)]}

\* the store is available: a commit rejects only for what the batch holds
OwnerNext ==
  \/ \E r \in 1 .. MaxRuns, ev \in events : DeliverAlone(r, ev)
  \/ \E r \in 1 .. MaxRuns : Stage(r)
  \/ \E r \in 1 .. MaxRuns : Commit(r)

OwnerSpec == OwnerInit /\ [][OwnerNext]_vars

(***************************************************************************)
(* Client: LeaderboardService                                              *)
(***************************************************************************)
\* isCacheValid with Date.now() <= expiry
isCacheValidAtExpiry(cacheKey_) ==
  /\ leaderboard.leaderboardCache[cacheKey_] # UNDEF
  /\ leaderboard.cacheExpiry[cacheKey_] # UNDEF
  /\ leaderboard.now <= leaderboard.cacheExpiry[cacheKey_].v

\* cached !== undefined && expiry !== undefined && Date.now() < expiry
isCacheValid(cacheKey_) ==
  /\ leaderboard.leaderboardCache[cacheKey_] # UNDEF
  /\ leaderboard.cacheExpiry[cacheKey_] # UNDEF
  /\ leaderboard.now < leaderboard.cacheExpiry[cacheKey_].v

LeaderboardFrame ==
  UNCHANGED <<fixtures, predictions, users, events, runs, ledger, count, calc, acc,
              response, profiles, schedule>>

\* getTopLeaderboard(limitTo) up to its await of getDocs: a valid cache entry
\* is returned, otherwise the query is sent
getTopLeaderboard(limitTo) ==
  /\ leaderboard.count < MaxCalls
  /\ leaderboard' =
       IF isCacheValid(cacheKey(limitTo))
         THEN [leaderboard EXCEPT
                 !.count = @ + 1,
                 !.answer = [limitTo |-> limitTo,
                             entries |-> leaderboard.leaderboardCache[cacheKey(limitTo)],
                             cached |-> TRUE, at |-> leaderboard.now]]
         ELSE [leaderboard EXCEPT
                 !.count = @ + 1,
                 !.calls = @ \cup {[id |-> leaderboard.count, limitTo |-> limitTo]}]
  /\ LeaderboardFrame

\* getDocs resolves: the first limitTo users of the collection as it is now
\* are mapped, stored under the key with expiry Date.now() + CACHE_DURATION,
\* and returned
QueryDone(call) ==
  /\ call \in leaderboard.calls
  /\ LET entries == [t |-> "entries", limitTo |-> call.limitTo,
                     board |-> leaderboard.board, fetchedAt |-> leaderboard.now]
     IN  leaderboard' =
           [leaderboard EXCEPT
              !.calls = @ \ {call},
              !.leaderboardCache[cacheKey(call.limitTo)] = entries,
              !.cacheExpiry[cacheKey(call.limitTo)] =
                 Num(leaderboard.now + CACHE_DURATION),
              !.answer = [limitTo |-> call.limitTo, entries |-> entries,
                          cached |-> FALSE, at |-> leaderboard.now]]
  /\ LeaderboardFrame

\* getDocs rejects: the error is logged and thrown again
QueryFail(call) ==
  /\ call \in leaderboard.calls
  /\ leaderboard' = [leaderboard EXCEPT !.calls = @ \ {call}]
  /\ LeaderboardFrame

clearCache ==
  /\ leaderboard' =
       [leaderboard EXCEPT !.leaderboardCache = [k \in CacheKeys |-> UNDEF],
                           !.cacheExpiry = [k \in CacheKeys |-> UNDEF]]
  /\ LeaderboardFrame

clearCacheEntry(cacheKey_) ==
  /\ leaderboard' = [leaderboard EXCEPT !.leaderboardCache[cacheKey_] = UNDEF,
                                        !.cacheExpiry[cacheKey_] = UNDEF]
  /\ LeaderboardFrame

\* a minute passes on the client
Tick ==
  /\ leaderboard.now < MaxNow
  /\ leaderboard' = [leaderboard EXCEPT !.now = @ + 1]
  /\ LeaderboardFrame

\* the users collection changes (a pipeline run commits stats)
BoardChange ==
  /\ leaderboard.board < MaxBoard
  /\ leaderboard' = [leaderboard EXCEPT !.board = @ + 1]
  /\ LeaderboardFrame

LeaderboardNext ==
  \/ \E limitTo \in LimitInputs : getTopLeaderboard(limitTo)
  \/ \E call \in leaderboard.calls : QueryDone(call)
  \/ \E call \in leaderboard.calls : QueryFail(call)
  \/ clearCache
  \/ \E k \in CacheKeys : clearCacheEntry(k)
  \/ Tick
  \/ BoardChange

LeaderboardSpec == Init /\ [][LeaderboardNext]_vars

(***************************************************************************)
(* Properties                                                              *)
(***************************************************************************)
RunIds == 1 .. MaxRuns

\* the update is a transition into finished, read off the two snapshots
IntoFinished(run) ==
  run.before.status # "finished" /\ run.after.status = "finished"

\* the invocation went past the trigger's guards into processPredictionsInBatches
InPipeline(run) == run.pc \in {"stage", "commit", "done", "failed"}

\* the prediction snapshot carries points and a calculation time
Scored(data) == data.pointsEarned.t = "num" /\ data.calculatedAt.t = "ts"

NoWrites(run) ==
  run.writes = 0 /\ run.commits = 0 /\ run.batch = <<>> /\ run.staged = <<>>

\* C1: at-most-once scoring under redelivery.  However the deliveries of a
\* finalization event interleave, each prediction is folded into its owner's
\* stats at most once: a user's processedPredictionsCount and totalPoints never
\* exceed the number and the points of the user's predictions ever scored.
AtMostOnceScoring ==
  \A u \in Users :
    /\ users[u].stats.processedPredictionsCount.v <= ledger.count[u]
    /\ users[u].stats.totalPoints.v <= ledger.points[u]

\* C2: sequential idempotence.  A completed run leaves none of the
\* predictions it loaded unscored, and a run that loads its predictions when
\* all of them are already scored stages no prediction write and no
\* user-stats write and commits nothing, so the stores stay as the first run
\* left them.
SecondRunIsNoOp ==
  \A r \in RunIds :
    /\ runs[r].pc = "done" =>
         \A n \in 1 .. Len(runs[r].preds) : runs[r].preds[n].id \in ledger.scored
    /\ (/\ InPipeline(runs[r])
        /\ \A n \in 1 .. Len(runs[r].preds) : Scored(runs[r].preds[n].data))
       => /\ runs[r].batch = <<>>
          /\ runs[r].staged = <<>>
          /\ runs[r].writes = 0

\* C2 witness: a first run has completed with writes and a second run of the
\* same fixture, which loaded only scored predictions, has completed too
SecondRunCompleted ==
  \E r \in RunIds, q \in RunIds :
    /\ r # q
    /\ runs[q].pc = "done" /\ runs[q].writes > 0
    /\ runs[r].pc = "done" /\ runs[r].fixtureId = runs[q].fixtureId
    /\ Len(runs[r].preds) > 1
    /\ \A n \in 1 .. Len(runs[r].preds) : Scored(runs[r].preds[n].data)
    /\ \E n \in 1 .. Len(runs[r].preds) : runs[r].preds[n].data.pointsEarned = Num(0)

\* C3: calculatePoints returns 3 if and only if both legs of the predicted
\* score equal the actual score.
ThreeIffExact ==
  calc.done =>
    ((calc.points = 3) <=> (calc.ph = calc.ah /\ calc.pa = calc.aa))

\* C3 witness: an exact prediction has been scored
ExactScored == calc.done /\ calc.ph = calc.ah /\ calc.pa = calc.aa /\ calc.ph # calc.pa

Sign(n) == IF n > 0 THEN 1 ELSE IF n < 0 THEN 0 - 1 ELSE 0

\* C4: for a prediction that is not exact calculatePoints returns 1 if and
\* only if predicted and actual outcome agree (the goal differences have the
\* same sign) and 0 otherwise; every result is 0, 1 or 3.
OneIffSameOutcome ==
  calc.done =>
    /\ calc.points \in {0, 1, 3}
    /\ ~(calc.ph = calc.ah /\ calc.pa = calc.aa) =>
         /\ calc.points \in {0, 1}
         /\ (calc.points = 1) <=> (Sign(calc.ph - calc.pa) = Sign(calc.ah - calc.aa))

\* C4 witness: actual 0-0, predicted 1-1, one point
DrawPredictedDrawScored ==
  /\ calc.done
  /\ calc.ah = 0 /\ calc.aa = 0 /\ calc.ph = 1 /\ calc.pa = 1
  /\ calc.points = 1

\* the number of predictions of user u a run newly scored with pts points
RECURSIVE CountStaged(_, _, _)
CountStaged(staged, u, pts) ==
  IF Len(staged) = 0 THEN 0
  ELSE (IF Head(staged).userId = u /\ Head(staged).points = pts THEN 1 ELSE 0)
       + CountStaged(Tail(staged), u, pts)

\* C5: after one completed pipeline run (no other run in the pipeline) every
\* user's counters have grown by exactly the fold of the user's predictions
\* newly scored by the run, also when the user owns two of them.
RunFoldsEveryPrediction ==
  \A r \in RunIds :
    (/\ runs[r].pc = "done"
     /\ \A q \in RunIds \ {r} : ~InPipeline(runs[q]))
    => \A u \in Users :
         LET old == runs[r].base[u].stats
             new == users[u].stats
             n3 == CountStaged(runs[r].staged, u, 3)
             n1 == CountStaged(runs[r].staged, u, 1)
             n0 == CountStaged(runs[r].staged, u, 0)
         IN  /\ new.processedPredictionsCount.v
                  = old.processedPredictionsCount.v + n3 + n1 + n0
             /\ new.exactPredictions.v = old.exactPredictions.v + n3
             /\ new.correctPredictions.v = old.correctPredictions.v + n1
             /\ new.wrongPredictions.v = old.wrongPredictions.v + n0
             /\ new.totalPoints.v = old.totalPoints.v + 3 * n3 + n1

\* C6: every user's stats satisfy
\* processedPredictionsCount = exactPredictions + correctPredictions + wrongPredictions.
CountersAddUp ==
  \A u \in Users :
    LET st == users[u].stats
    IN  /\ IsNum(st.processedPredictionsCount)
        /\ IsNum(st.exactPredictions)
        /\ IsNum(st.correctPredictions)
        /\ IsNum(st.wrongPredictions)
        /\ st.processedPredictionsCount.v
             = st.exactPredictions.v + st.correctPredictions.v + st.wrongPredictions.v

\* C6 witness: a user's stats hold predictions of two different kinds,
\* written by two different runs
TwoKindsCounted ==
  \E u \in Users :
    /\ users[u].stats.processedPredictionsCount.v >= 2
    /\ users[u].stats.wrongPredictions.v >= 1
    /\ users[u].stats.exactPredictions.v >= 1
    /\ \A r \in RunIds : runs[r].pc = "done" /\ runs[r].writes > 0

\* the integer nearest to n / d, halves rounded up
RoundHalfUp(n, d) == (2 * n + d) \div (2 * d)

\* C7: the accuracyRate of a written stats record is the round-half-up of
\* 100 * (exactPredictions + correctPredictions) / processedPredictionsCount
\* of the same record.
AccuracyIsRoundHalfUp ==
  acc.done =>
    acc.new.accuracyRate
      = Num(RoundHalfUp(100 * (acc.new.exactPredictions.v
                               + acc.new.correctPredictions.v),
                        acc.new.processedPredictionsCount.v))

\* C8: the trigger enters the pipeline only on a transition from a status
\* other than finished into finished; any other update is skipped without a
\* write and without an error.
PipelineOnlyOnFinish ==
  \A r \in RunIds :
    /\ (InPipeline(runs[r]) \/ runs[r].pc = "empty") => IntoFinished(runs[r])
    /\ (runs[r].pc # "idle" /\ ~IntoFinished(runs[r]))
         => runs[r].pc = "skipped" /\ NoWrites(runs[r])

\* C8 witness: the re-save of a finished fixture with another score was
\* skipped while the fixture has a prediction that is not scored
FinishedResaveSkipped ==
  \E r \in RunIds :
    /\ runs[r].pc = "skipped"
    /\ runs[r].before.status = "finished" /\ runs[r].after.status = "finished"
    /\ runs[r].before.homeScore # runs[r].after.homeScore
    /\ \E id \in PredIds :
         /\ predictions[id].exists
         /\ predictions[id].fixtureId = runs[r].fixtureId
         /\ ~Scored(predictions[id])

Missing(score) == score = NULL \/ score = UNDEF

\* C9: a transition into finished whose after snapshot lacks a score (null
\* or absent) is ignored: the pipeline is not entered, nothing is written.
MissingScoreIgnored ==
  \A r \in RunIds :
    (/\ runs[r].pc # "idle"
     /\ IntoFinished(runs[r])
     /\ (Missing(runs[r].after.homeScore) \/ Missing(runs[r].after.awayScore)))
    => ~InPipeline(runs[r]) /\ NoWrites(runs[r])

HasPredictions(fixtureId) ==
  \E id \in PredIds : predictions[id].exists /\ predictions[id].fixtureId = fixtureId

\* C10: a valid finalization of a fixture no prediction refers to completes
\* normally without entering the pipeline and without any write.
NoPredictionsNoWrites ==
  \A r \in RunIds :
    (/\ runs[r].pc # "idle"
     /\ IntoFinished(runs[r])
     /\ ~Missing(runs[r].after.homeScore) /\ ~Missing(runs[r].after.awayScore)
     /\ ~HasPredictions(runs[r].fixtureId))
    => runs[r].pc = "empty" /\ NoWrites(runs[r])

\* C10 witness: the fixture without predictions was finalized while another
\* fixture has a prediction waiting to be scored
EmptyFixtureFinalized ==
  \E r \in RunIds :
    /\ runs[r].pc = "empty"
    /\ ~HasPredictions(runs[r].fixtureId)
    /\ \E id \in PredIds : predictions[id].exists /\ ~Scored(predictions[id])

\* C11: no batch a run stages for one commit holds more than BATCH_SIZE write
\* operations, whatever the mix of scored and unscored predictions.
BatchWithinLimit ==
  \A r \in RunIds : Len(runs[r].batch) <= BATCH_SIZE

\* the positions in the prediction list of the slice that starts at run.i
SlicePositions(run) ==
  {n \in 1 .. Len(run.preds) : run.i <= n /\ n < run.i + BATCH_SIZE}

\* the position in the prediction list of the prediction a staged write is for
PositionOf(run, write) ==
  CHOOSE n \in 1 .. Len(run.preds) : run.preds[n].id = write.pid

\* C12: within one run the batches are committed one after another in the
\* order of the prediction list.  While a run stages or commits the slice that
\* starts at i, exactly the (i - 1) / BATCH_SIZE slices before it have been
\* committed, its one open batch holds writes of this slice only, in list
\* order, and no prediction is staged twice.
BatchesInOrder ==
  \A r \in RunIds :
    LET run == runs[r]
    IN  /\ run.pc \in {"stage", "commit", "failed"} =>
             /\ run.commits * BATCH_SIZE = run.i - 1
             /\ \A k \in 1 .. Len(run.batch) :
                  /\ \E n \in SlicePositions(run) : run.preds[n].id = run.batch[k].pid
                  /\ \A l \in 1 .. (k - 1) :
                       PositionOf(run, run.batch[l]) <= PositionOf(run, run.batch[k])
        /\ run.pc = "done" =>
             /\ run.batch = <<>>
             /\ (run.commits - 1) * BATCH_SIZE < Len(run.preds)
             /\ Len(run.preds) <= run.commits * BATCH_SIZE
        /\ Len(run.staged) <= Len(run.preds)
        /\ run.writes + Len(run.batch) = 2 * Len(run.staged)

\* C12 witness: the first batch of a run is committed and the run has staged
\* the writes of its second batch
SecondBatchStaged ==
  \E r \in RunIds :
    /\ runs[r].pc = "commit"
    /\ runs[r].commits = 1
    /\ runs[r].writes > 0
    /\ runs[r].batch # <<>>

\* C13: a failed commit writes nothing of its batch; the batches committed
\* before it stay committed (the run issues no compensating write), the run
\* commits no later batch, and the trigger ends there with the failure logged
\* (pc "failed") instead of raising.
CommitFailureIsolated ==
  /\ [](\A r \in RunIds :
          runs[r].pc = "failed" =>
            /\ runs[r].commits * BATCH_SIZE = runs[r].i - 1
            /\ \A n \in 1 .. Len(runs[r].preds) :
                 n < runs[r].i => runs[r].preds[n].id \in ledger.scored)
  /\ [][\A r \in RunIds :
          /\ (runs[r].pc = "commit" /\ runs'[r].pc = "failed") =>
               /\ predictions' = predictions
               /\ users' = users
               /\ runs'[r] = [runs[r] EXCEPT !.pc = "failed"]
          /\ runs[r].pc = "failed" => runs'[r] = runs[r]]_vars

\* C13 witness: a run failed at its second commit; the prediction of its
\* second slice is as the run found it and those of the first slice are scored
SecondCommitFailed ==
  \E r \in RunIds :
    /\ runs[r].pc = "failed"
    /\ runs[r].commits = 1
    /\ runs[r].batch # <<>>
    /\ \A n \in 1 .. Len(runs[r].preds) :
         IF n < runs[r].i THEN Scored(predictions[runs[r].preds[n].id])
         ELSE predictions[runs[r].preds[n].id] = runs[r].preds[n].data

\* C14: safe end-to-end retry.  Once an invocation has completed, whether it
\* is the first one or a rerun after an invocation that aborted at a commit,
\* the prediction points and the user stats are those of one invocation in
\* which every commit succeeds, run on what the first invocation loaded.
RetryEqualsSingleRun ==
  \A r \in RunIds :
    (runs[r].pc = "done" /\ InPipeline(runs[1])) =>
      LET first == runs[1]
      IN  /\ users = SingleRunUsers(first.preds, first.after, 1, <<>>, first.base)
          /\ \A n \in 1 .. Len(first.preds) :
               /\ predictions[first.preds[n].id].pointsEarned
                    = SingleRunPoints(first.preds[n], first.after)
               /\ predictions[first.preds[n].id].calculatedAt = TS

\* C14 witness: the first invocation aborted after committing one batch, the
\* rerun completed with writes of its own
RerunCompletedAfterAbort ==
  /\ runs[1].pc = "failed"
  /\ runs[1].commits = 1
  /\ runs[1].writes > 0
  /\ \E r \in RunIds : runs[r].pc = "done" /\ runs[r].writes > 0

\* the prediction is in the list an invocation took into the pipeline
Loaded(id) ==
  \E r \in RunIds :
    /\ InPipeline(runs[r])
    /\ \E n \in 1 .. Len(runs[r].preds) : runs[r].preds[n].id = id

\* C15: liveness of scoring.  Every prediction an invocation took into the
\* pipeline of a fixture that became finished with both scores eventually
\* carries pointsEarned and calculatedAt, also when that invocation aborted.
LoadedPredictionEventuallyScored ==
  \A id \in PredIds : Loaded(id) ~> Scored(predictions[id])

\* parseInt of the score gives a number
Parseable(score) == IsNum(ParseInt(score))

\* C16: a prediction whose predicted score is not a number or is missing is
\* skipped: no invocation stages a write for it.
UnparseablePredictionSkipped ==
  \A r \in RunIds :
    \A k \in 1 .. Len(runs[r].batch) :
      LET data == runs[r].preds[PositionOf(runs[r], runs[r].batch[k])].data
      IN  Parseable(data.homeScore) /\ Parseable(data.awayScore)

\* the number of predictions of user u a run newly scored
StagedFor(run, u) ==
  CountStaged(run.staged, u, 3) + CountStaged(run.staged, u, 1)
    + CountStaged(run.staged, u, 0)

\* C17: stats updates are serialized per user.  When the invocations for two
\* different fixtures have each scored one prediction of the same user and
\* both have completed, the user's stats hold both predictions, however the
\* stats reads and the commits of the two interleave.
TwoFixturesBothCounted ==
  \A r \in RunIds, q \in RunIds, u \in Users :
    (/\ runs[r].pc = "done" /\ runs[q].pc = "done"
     /\ runs[r].fixtureId # runs[q].fixtureId
     /\ StagedFor(runs[r], u) = 1 /\ StagedFor(runs[q], u) = 1)
    => /\ ledger.count[u] >= 2
       /\ users[u].stats.processedPredictionsCount = Num(ledger.count[u])
       /\ users[u].stats.totalPoints = Num(ledger.points[u])

\* C18: a pipeline stats write leaves the rest of the user document as it
\* was: the entries of stats other than the six scoring fields (favoriteTeam,
\* predictionsMade, currentStreak, longestStreak, perfectWeeks) are still
\* there after a user's predictions have been scored.
StatsWriteKeepsOtherEntries ==
  \A u \in Users : ledger.count[u] > 0 => users[u].statsOthers

\* C19: no operation of the client's profile service changes a scoring field
\* (totalPoints, exactPredictions, correctPredictions, wrongPredictions,
\* processedPredictionsCount, accuracyRate) of a user's stats.
ProfileServiceKeepsScoringFields ==
  [][\A u \in Users : users'[u].stats = users[u].stats]_vars

\* C20: in the fixture store, under importFixtures, updateMatchResult and
\* updateFixtureSchedule, a fixture has both scores if and only if its status
\* is finished, and no update event shows a finished fixture with a score
\* missing.
ScoresIffFinished ==
  /\ \A f \in Fixtures :
       (~Missing(fixtures[f].homeScore) /\ ~Missing(fixtures[f].awayScore))
         <=> fixtures[f].status = "finished"
  /\ \A ev \in events :
       ev.after.status = "finished" =>
         ~Missing(ev.after.homeScore) /\ ~Missing(ev.after.awayScore)

\* C20 witness: after an import, a fixture was rescheduled by a request that
\* read it before its result was entered and wrote after
RescheduledWhileFinished ==
  /\ count.imports > 0
  /\ \E f \in Fixtures :
       /\ fixtures[f].status = "finished"
       /\ schedule.docs[f].scheduleHistory # <<>>
       /\ \E ev \in events :
            ev.fixtureId = f /\ ev.before = fixtures[f] /\ ev.after = fixtures[f]

\* C21: a schedule update never modifies a finished fixture: while a fixture
\* stays finished its kickoffTime, predictionDeadline and scheduleHistory do
\* not change, whenever the request read the fixture.
FinishedScheduleFrozen ==
  [][\A f \in Fixtures :
       (fixtures[f].status = "finished" /\ fixtures'[f].status = "finished")
         => schedule'.docs[f] = schedule.docs[f]]_vars

\* a score that is an integer from 0 to 20
IntegerInRange(score) == score.t = "num" /\ score.v \in 0 .. 20

\* the request fails validation: wrong method, no fixtureId, a score that is
\* not an integer from 0 to 20, or a fixtureId without a fixture document
FailsValidation(q) ==
  \/ q.method # "POST"
  \/ q.fixtureId = ""
  \/ ~IntegerInRange(q.homeScore)
  \/ ~IntegerInRange(q.awayScore)
  \/ q.fixtureId \notin DOMAIN fixtures

Present(x) == x # NULL /\ x # UNDEF

\* C23: the guard skips a prediction exactly when its pointsEarned is non-null
\* and its calculatedAt is set: after a completed run a prediction that had
\* both is unchanged, and one that had only one of the two (pointsEarned null
\* or absent, or calculatedAt missing) carries the points of the result.
GuardSkipsOnlyFullyMarked ==
  \A r \in RunIds :
    (r = 1 /\ runs[r].pc = "done") =>
      \A n \in 1 .. Len(runs[r].preds) :
        LET p == runs[r].preds[n]
        IN  IF Present(p.data.pointsEarned) /\ Present(p.data.calculatedAt)
              THEN predictions[p.id] = p.data
              ELSE /\ predictions[p.id].calculatedAt = TS
                   /\ predictions[p.id].pointsEarned =
                        Num(calculatePoints(ParseInt(p.data.homeScore),
                                            ParseInt(p.data.awayScore),
                                            runs[r].after.homeScore,
                                            runs[r].after.awayScore))

\* C24: a commit of a pipeline run for fixture X changes prediction documents
\* of fixture X only, and on them nothing but pointsEarned and calculatedAt.
RunWritesOnlyItsFixturePoints ==
  [][\A r \in RunIds :
       (runs[r].pc = "commit" /\ runs'[r] # runs[r]) =>
         \A id \in PredIds :
           predictions'[id] # predictions[id] =>
             /\ predictions[id].fixtureId = runs[r].fixtureId
             /\ [predictions'[id] EXCEPT
                   !.pointsEarned = predictions[id].pointsEarned,
                   !.calculatedAt = predictions[id].calculatedAt] = predictions[id]]_vars

\* a run for one fixture has written points while a prediction for another
\* fixture exists and carries none
OtherFixturePredictionUnscored ==
  \E r \in RunIds :
    /\ runs[r].pc = "done"
    /\ runs[r].writes > 0
    /\ \E id \in PredIds :
         /\ predictions[id].exists
         /\ predictions[id].fixtureId # runs[r].fixtureId
         /\ predictions[id].pointsEarned = UNDEF

\* C25: in every reachable state the pointsEarned of each scored prediction
\* is calculatePoints of the prediction's current predicted score and its
\* fixture's current score.
PointsMatchCurrentScores ==
  \A id \in PredIds :
    (predictions[id].exists /\ Scored(predictions[id])) =>
      predictions[id].pointsEarned =
        Num(calculatePoints(ParseInt(predictions[id].homeScore),
                            ParseInt(predictions[id].awayScore),
                            fixtures[predictions[id].fixtureId].homeScore,
                            fixtures[predictions[id].fixtureId].awayScore))

\* C26: scored is permanent: no step returns a scored prediction to unscored.
ScoredStaysScored ==
  [][\A id \in PredIds :
       (predictions[id].exists /\ Scored(predictions[id]))
         => (predictions'[id].exists /\ Scored(predictions'[id]))]_vars

\* C27: for users whose stats start at zero and are written by pipeline runs
\* only, totalPoints = 3 * exactPredictions + correctPredictions and
\* accuracyRate lies between 0 and 100, whatever the interleaving.
PointsMatchCounters ==
  \A u \in Users :
    LET st == users[u].stats
    IN  /\ IsNum(st.totalPoints)
        /\ IsNum(st.exactPredictions)
        /\ IsNum(st.correctPredictions)
        /\ IsNum(st.accuracyRate)
        /\ st.totalPoints.v = 3 * st.exactPredictions.v + st.correctPredictions.v
        /\ st.accuracyRate.v >= 0
        /\ st.accuracyRate.v <= 100

\* one stats update of a user was overwritten by another, and the stats left
\* hold points
OverwrittenUpdateHoldsPoints ==
  \E u \in Users :
    /\ users[u].stats.processedPredictionsCount.v < ledger.count[u]
    /\ users[u].stats.totalPoints.v > 0
    /\ \A r \in RunIds : runs[r].pc = "done"

\* C28: when the owner of a prediction has no stats record (no stats field,
\* or no user document), the first run over the prediction ends with the
\* prediction's points committed and the owner's stats holding exactly that
\* prediction, counted from zero.
NoStatsOwnerCountedFromZero ==
  (runs[1].pc \in {"done", "failed"}) =>
    \A n \in 1 .. Len(runs[1].preds) :
      LET p == runs[1].preds[n]
          u == p.data.userId
          points == calculatePoints(ParseInt(p.data.homeScore),
                                    ParseInt(p.data.awayScore),
                                    runs[1].after.homeScore,
                                    runs[1].after.awayScore)
      IN  ~(runs[1].base[u].exists /\ runs[1].base[u].hasStats) =>
            /\ predictions[p.id].pointsEarned = Num(points)
            /\ predictions[p.id].calculatedAt = TS
            /\ users[u].hasStats
            /\ users[u].stats = NewStats(ZeroStats, points)

\* C29: each schedule update that reaches the store sets predictionDeadline
\* to the new kickoff time minus one hour and appends to scheduleHistory one
\* entry holding the kickoff time the call read; the entries already there stay
\* as they are, so the history is one entry longer.
ScheduleUpdateAppendsHistory ==
  [][\A n \in 1 .. Len(schedule.pending) :
       (schedule'.pending = RemoveAt(schedule.pending, n)) =>
         LET req == schedule.pending[n]
             old == schedule.docs[req.fixtureId]
             new == schedule'.docs[req.fixtureId]
         IN  /\ new.kickoffTime = req.newKickoffTime
             /\ new.predictionDeadline = req.newKickoffTime - 1
             /\ Len(new.scheduleHistory) = Len(old.scheduleHistory) + 1
             /\ SubSeq(new.scheduleHistory, 1, Len(old.scheduleHistory))
                  = old.scheduleHistory
             /\ new.scheduleHistory[Len(new.scheduleHistory)].oldKickoffTime
                  = req.oldKickoffTime]_vars

\* an entry for the key of limitTo exists and now is strictly before its expiry
FreshEntry(lb, limitTo) ==
  /\ lb.leaderboardCache[cacheKey(limitTo)] # UNDEF
  /\ lb.cacheExpiry[cacheKey(limitTo)] # UNDEF
  /\ lb.now < lb.cacheExpiry[cacheKey(limitTo)].v

\* what the last completed call returned was fetched for its own limit, and if
\* it came from the cache, less than CACHE_DURATION before
AnswerFresh ==
  leaderboard.answer.entries # UNDEF =>
    /\ leaderboard.answer.entries.limitTo = leaderboard.answer.limitTo
    /\ leaderboard.answer.cached =>
         leaderboard.answer.at - leaderboard.answer.entries.fetchedAt < CACHE_DURATION

\* a getTopLeaderboard call answers from the cache exactly when the entry of
\* its key is fresh, and otherwise sends a query
CallUsesCacheIffFresh ==
  leaderboard'.count = leaderboard.count + 1 =>
    \/ /\ leaderboard'.calls = leaderboard.calls
       /\ leaderboard'.answer.cached
       /\ FreshEntry(leaderboard, leaderboard'.answer.limitTo)
       /\ leaderboard'.answer.entries =
            leaderboard.leaderboardCache[cacheKey(leaderboard'.answer.limitTo)]
       /\ leaderboard'.answer.at = leaderboard.now
    \/ /\ leaderboard'.answer = leaderboard.answer
       /\ \E limitTo \in LimitInputs :
            /\ ~FreshEntry(leaderboard, limitTo)
            /\ leaderboard'.calls =
                 leaderboard.calls \cup {[id |-> leaderboard.count, limitTo |-> limitTo]}
            /\ leaderboard'.calls # leaderboard.calls

\* a query that resolves replaces the entry of its key and the expiry of its
\* key, and those of no other key
QueryReplacesEntry ==
  (leaderboard'.answer # leaderboard.answer /\ ~leaderboard'.answer.cached) =>
    LET key == cacheKey(leaderboard'.answer.limitTo)
    IN  /\ leaderboard'.leaderboardCache[key] = leaderboard'.answer.entries
        /\ leaderboard'.answer.entries.fetchedAt = leaderboard.now
        /\ leaderboard'.cacheExpiry[key] = Num(leaderboard.now + CACHE_DURATION)
        /\ \A k \in CacheKeys \ {key} :
             /\ leaderboard'.leaderboardCache[k] = leaderboard.leaderboardCache[k]
             /\ leaderboard'.cacheExpiry[k] = leaderboard.cacheExpiry[k]

\* C30: getTopLeaderboard(n) answers from the cache only when an entry for the
\* key of n exists and now is strictly before its expiry, the fetch time plus
\* 5 minutes; otherwise it queries the store and replaces the entry and its
\* expiry.  No list is served from the cache 5 minutes or more after it was
\* fetched, and a list fetched for one n is never served for another.
CacheServesOnlyFreshOwnEntries ==
  /\ []AnswerFresh
  /\ [][CallUsesCacheIffFresh /\ QueryReplacesEntry]_vars

\* a list was served from the cache in the last minute before its expiry while
\* the other key holds an entry too
ServedFromCacheBeforeExpiry ==
  /\ leaderboard.answer.cached
  /\ leaderboard.answer.at = leaderboard.answer.entries.fetchedAt + CACHE_DURATION - 1
  /\ \A k \in CacheKeys : leaderboard.leaderboardCache[k] # UNDEF

====
